---- MODULE Spec2Model ----
(***************************************************************************)
(* go-ChiiCgrep: extraction of selected CSV columns into one stream of     *)
(* HTML record blocks (src/mian.go).  A run is main(): create the output,  *)
(* discover the CSV files, call processFile on each of them in order,      *)
(* write the footer.  Strings are sequences of one-character strings, so   *)
(* that strings.Contains and html.EscapeString are computed, not assumed.  *)
(***************************************************************************)
EXTENDS Integers, Sequences, FiniteSets, TLC

VARIABLES
    cfg,            \* Config: Columns, SearchTarget, OutFile
    highlightRules, \* main's highlightRules ([]highlightRule)
    fileTagRules,   \* main's fileTagRules ([]fileTagRule)
    fs,             \* the file system under cfg.InputPath: one entry per CSV file
    pc,             \* position of main
    outFile,        \* the *os.File of cfg.OutFile: "nil", "open" or "closed"
    out,            \* what has been written to outputWriter, in order
    diag,           \* what has been written to the log, in order
    files,          \* the result of findCsvFiles
    fi,             \* index (1-based) of the file the range loop is at
    fileOpen,       \* indices of the input files whose handle is open
    targetColumns,  \* processFile's targetColumns
    resolvedRules,  \* processFile's resolvedRules
    fileTagClass,   \* processFile's fileTagClass
    lineNum,        \* processFile's lineNum
    pos,            \* number of rows the csv.Reader has consumed after the header
    fieldsPerRecord \* csv.Reader.FieldsPerRecord (0 until the first record is read)

vars == <<cfg, highlightRules, fileTagRules, fs, pc, outFile, out, diag, files, fi,
          fileOpen, targetColumns, resolvedRules, fileTagClass, lineNum, pos,
          fieldsPerRecord>>

----------------------------------------------------------------------------
(* Bounds of the model *)

\* at most this many CSV files under the input path
MaxFiles == 2
\* at most this many data rows in all the files together
MaxRows == 2
\* a read that keeps failing is retried until lineNum reaches this
MaxLine == 4

----------------------------------------------------------------------------
(* Strings *)

\* strings.Contains(s, substr)
Contains(s, substr) ==
    \E i \in 0..(Len(s) - Len(substr)) : SubSeq(s, i + 1, i + Len(substr)) = substr

\* html.EscapeString: the five characters it replaces
EscapeChar(c) ==
    CASE c = "&"  -> <<"&", "a", "m", "p", ";">>
      [] c = "<"  -> <<"&", "l", "t", ";">>
      [] c = ">"  -> <<"&", "g", "t", ";">>
      [] c = "\"" -> <<"&", "#", "3", "4", ";">>
      [] c = "'"  -> <<"&", "#", "3", "9", ";">>
      [] OTHER    -> <<c>>

RECURSIVE EscapeString(_)
EscapeString(s) ==
    IF s = <<>> THEN <<>> ELSE EscapeChar(Head(s)) \o EscapeString(Tail(s))

----------------------------------------------------------------------------
(* encoding/csv as processFile configures it *)

\* reader.Read(): the reader was created with FieldsPerRecord = 0, so the first
\* record (the header) fixes the field count and every later record with another
\* field count is returned with ErrFieldCount.  A row of the file is
\* [syntaxOK, cells]; after the last row the file ends or the read fails.
ReaderRead(file, p, fpr) ==
    IF p < Len(file.rows)
    THEN LET raw == file.rows[p + 1] IN
         IF ~raw.syntaxOK
         THEN [err |-> "parse", record |-> <<>>, advance |-> 1]
         ELSE IF fpr > 0 /\ Len(raw.cells) # fpr
         THEN [err |-> "fieldcount", record |-> raw.cells, advance |-> 1]
         ELSE [err |-> "nil", record |-> raw.cells, advance |-> 1]
    ELSE IF file.tail = "eof"
    THEN [err |-> "EOF", record |-> <<>>, advance |-> 0]
    ELSE [err |-> "io", record |-> <<>>, advance |-> 0]

----------------------------------------------------------------------------
(* processFile: the parts that compute *)

\* headerMap[h] = i for i, h := range headers (a later duplicate overwrites);
\* indices are 0-based as in the code
RECURSIVE BuildHeaderMap(_, _, _)
BuildHeaderMap(headers, i, m) ==
    IF i >= Len(headers) THEN m
    ELSE BuildHeaderMap(headers, i + 1,
            [h \in (DOMAIN m) \cup {headers[i + 1]} |->
                IF h = headers[i + 1] THEN i ELSE m[h]])

HeaderMap(headers) == BuildHeaderMap(headers, 0, <<>>)

\* the loop over rules: the resolved rules, in order
RECURSIVE ResolveRules(_, _)
ResolveRules(rules, headerMap) ==
    IF rules = <<>> THEN <<>>
    ELSE LET rule == Head(rules) IN
         (IF rule.ColumnName \in DOMAIN headerMap
          THEN <<[Index |-> headerMap[rule.ColumnName], Value |-> rule.ColumnValue]>>
          ELSE <<>>) \o ResolveRules(Tail(rules), headerMap)

\* the loop over rules: the warnings, in order
RECURSIVE RuleWarnings(_, _, _)
RuleWarnings(rules, headerMap, filePath) ==
    IF rules = <<>> THEN <<>>
    ELSE LET rule == Head(rules) IN
         (IF rule.ColumnName \in DOMAIN headerMap
          THEN <<>>
          ELSE <<[kind |-> "ruleColumnMissing", file |-> filePath,
                  column |-> rule.ColumnName, line |-> 0]>>)
         \o RuleWarnings(Tail(rules), headerMap, filePath)

\* the target columns gathered in the order of the header, not of cfg.Columns
RECURSIVE ResolveColumns_FromIndex(_, _, _)
ResolveColumns_FromIndex(specs, headerMap, i) ==
    IF \A h \in DOMAIN headerMap : headerMap[h] < i THEN <<>>
    ELSE LET sel == SelectSeq(specs, LAMBDA sp :
                        sp.Name \in DOMAIN headerMap /\ headerMap[sp.Name] = i)
         IN [k \in 1..Len(sel) |->
                [Name |-> sel[k].Name, Index |-> i, Emphasize |-> sel[k].Emphasize]]
            \o ResolveColumns_FromIndex(specs, headerMap, i + 1)

ResolveColumns_HeaderOrder(specs, headerMap) ==
    ResolveColumns_FromIndex(specs, headerMap, 0)

\* the loop over cfg.Columns: the target columns, in order
RECURSIVE ResolveColumns(_, _)
ResolveColumns(specs, headerMap) ==
    IF specs = <<>> THEN <<>>
    ELSE LET spec == Head(specs) IN
         (IF spec.Name \in DOMAIN headerMap
          THEN <<[Name |-> spec.Name, Index |-> headerMap[spec.Name],
                  Emphasize |-> spec.Emphasize]>>
          ELSE <<>>) \o ResolveColumns(Tail(specs), headerMap)

\* the warning written once for each missing name, not once for each spec
RECURSIVE ColumnWarnings_OncePerName(_, _, _)
ColumnWarnings_OncePerName(specs, headerMap, filePath) ==
    IF specs = <<>> THEN <<>>
    ELSE LET spec == Head(specs)
             rest == Tail(specs) IN
         (IF spec.Name \in DOMAIN headerMap
             \/ \E i \in DOMAIN rest : rest[i].Name = spec.Name
          THEN <<>>
          ELSE <<[kind |-> "columnMissing", file |-> filePath,
                  column |-> spec.Name, line |-> 0]>>)
         \o ColumnWarnings_OncePerName(rest, headerMap, filePath)

\* the loop over cfg.Columns: the warnings, in order
RECURSIVE ColumnWarnings(_, _, _)
ColumnWarnings(specs, headerMap, filePath) ==
    IF specs = <<>> THEN <<>>
    ELSE LET spec == Head(specs) IN
         (IF spec.Name \in DOMAIN headerMap
          THEN <<>>
          ELSE <<[kind |-> "columnMissing", file |-> filePath,
                  column |-> spec.Name, line |-> 0]>>)
         \o ColumnWarnings(Tail(specs), headerMap, filePath)

\* the loop over tagRules without the break: the last matching rule wins
RECURSIVE FileTagClass_LastMatch(_, _)
FileTagClass_LastMatch(filePath, tagRules) ==
    IF tagRules = <<>> THEN <<>>
    ELSE LET later == FileTagClass_LastMatch(filePath, Tail(tagRules)) IN
         IF later # <<>> THEN later
         ELSE IF Contains(filePath, Head(tagRules).Keyword)
         THEN <<" ", "t", "a", "g", "-">> \o EscapeString(Head(tagRules).TagName)
         ELSE <<>>

\* the loop over tagRules, leaving at the first rule whose keyword the path contains
RECURSIVE FileTagClass(_, _)
FileTagClass(filePath, tagRules) ==
    IF tagRules = <<>> THEN <<>>
    ELSE IF Contains(filePath, Head(tagRules).Keyword)
    THEN <<" ", "t", "a", "g", "-">> \o EscapeString(Head(tagRules).TagName)
    ELSE FileTagClass(filePath, Tail(tagRules))

\* the search for the target left after the first cell
RowMatches_FirstCell(record, target) ==
    target = <<>> \/ (record # <<>> /\ Contains(record[1], target))

\* the row filter left out: every row passes
RowMatches_NoFilter(record, target) == TRUE

\* the row filter on cfg.SearchTarget
RowMatches(record, target) ==
    target = <<>> \/ \E i \in DOMAIN record : Contains(record[i], target)

\* columnsToHighlight: the indices the resolved rules mark for this record
ColumnsToHighlight(record, rules) ==
    { rules[k].Index : k \in { j \in DOMAIN rules :
          /\ rules[j].Index < Len(record)
          /\ record[rules[j].Index + 1] = rules[j].Value } }

\* every entry of a row marked as soon as one rule matches in the row
ClassName_RowHighlight(col, toHighlight) ==
    <<"data-item">>
    \o (IF col.Emphasize THEN <<"emphasis">> ELSE <<>>)
    \o (IF toHighlight # {} THEN <<"highlight-value">> ELSE <<>>)

\* the class attribute of a column entry
ClassName(col, toHighlight) ==
    <<"data-item">>
    \o (IF col.Emphasize THEN <<"emphasis">> ELSE <<>>)
    \o (IF col.Index \in toHighlight THEN <<"highlight-value">> ELSE <<>>)

\* the loop over targetColumns: one entry per column the record reaches
RECURSIVE RenderColumns(_, _, _)
RenderColumns(cols, record, toHighlight) ==
    IF cols = <<>> THEN <<>>
    ELSE LET col == Head(cols) IN
         (IF col.Index < Len(record)
          THEN <<[class |-> ClassName(col, toHighlight),
                  key   |-> EscapeString(col.Name),
                  value |-> EscapeString(record[col.Index + 1])]>>
          ELSE <<>>) \o RenderColumns(Tail(cols), record, toHighlight)

\* the record block built in sb
RenderRecord(filePath, line, record, cols, rules, tagClass) ==
    [kind      |-> "record",
     fileClass |-> <<"f", "i", "l", "e", "-", "i", "n", "f", "o">> \o tagClass,
     file      |-> EscapeString(filePath),
     line      |-> line,
     items     |-> RenderColumns(cols, record, ColumnsToHighlight(record, rules))]

----------------------------------------------------------------------------
(* The log *)

Diag(kind, filePath, column, line) ==
    [kind |-> kind, file |-> filePath, column |-> column, line |-> line]

\* the range loop of main moves to the next file, or leaves the loop
NextFile ==
    /\ fi' = fi + 1
    /\ pc' = IF fi + 1 > Len(files) THEN "finalize" ELSE "open"

\* processFile's error aborts the run
ReturnError_Fatal(kind) ==
    /\ diag' = Append(diag, Diag(kind, files[fi], <<>>, 0))
    /\ pc' = "exit"
    /\ fi' = fi

\* processFile returns an error: main logs it and goes on with the next file
ReturnError(kind) ==
    /\ diag' = Append(diag, Diag(kind, files[fi], <<>>, 0))
    /\ NextFile

\* processFile's locals have no meaning between two calls
ResetLocals ==
    /\ targetColumns' = <<>>
    /\ resolvedRules' = <<>>
    /\ fileTagClass' = <<>>
    /\ lineNum' = 0
    /\ pos' = 0
    /\ fieldsPerRecord' = 0

----------------------------------------------------------------------------
(* main *)

\* os.Create(cfg.OutFile) and writeHtmlHeader, or the console warning
CreateOutput ==
    /\ pc = "start"
    /\ IF cfg.OutFile # <<>>
       THEN \E created \in BOOLEAN :
              IF created
              THEN /\ outFile' = "open"
                   /\ out' = Append(out, [kind |-> "header"])
                   /\ pc' = "discover"
                   /\ diag' = diag
              ELSE /\ diag' = Append(diag, Diag("createFailed", cfg.OutFile, <<>>, 0))
                   /\ pc' = "exit"
                   /\ UNCHANGED <<outFile, out>>
       ELSE /\ diag' = Append(diag, Diag("consoleWarning", <<>>, <<>>, 0))
            /\ pc' = "discover"
            /\ UNCHANGED <<outFile, out>>
    /\ UNCHANGED <<cfg, highlightRules, fileTagRules, fs, files, fi, fileOpen,
                   targetColumns, resolvedRules, fileTagClass, lineNum, pos,
                   fieldsPerRecord>>

\* findCsvFiles and the two ways main ends after it
Discover ==
    /\ pc = "discover"
    /\ \E found \in BOOLEAN :
         IF ~found
         THEN /\ diag' = Append(diag, Diag("discoverFailed", <<>>, <<>>, 0))
              /\ pc' = "exit"
              /\ UNCHANGED <<files, fi>>
         ELSE /\ files' = [i \in DOMAIN fs |-> fs[i].path]
              /\ IF Len(fs) = 0
                 THEN /\ diag' = Append(diag, Diag("noFiles", <<>>, <<>>, 0))
                      /\ pc' = "done"
                      /\ fi' = fi
                 ELSE /\ diag' = diag
                      /\ pc' = "open"
                      /\ fi' = 1
    /\ UNCHANGED <<cfg, highlightRules, fileTagRules, fs, outFile, out, fileOpen,
                   targetColumns, resolvedRules, fileTagClass, lineNum, pos,
                   fieldsPerRecord>>

\* processFile up to os.Open; a failure returns to main, which logs it
OpenFile ==
    /\ pc = "open"
    /\ IF fs[fi].canOpen
       THEN /\ fileOpen' = fileOpen \cup {fi}
            /\ pc' = "header"
            /\ UNCHANGED <<diag, fi>>
       ELSE /\ ReturnError("openError")
            /\ UNCHANGED fileOpen
    /\ UNCHANGED <<cfg, highlightRules, fileTagRules, fs, outFile, out, files,
                   targetColumns, resolvedRules, fileTagClass, lineNum, pos,
                   fieldsPerRecord>>

\* processFile from the header read to the row loop
ReadHeader ==
    /\ pc = "header"
    /\ LET file == fs[fi]
           filePath == files[fi]
       IN
       CASE file.header = "eof" ->
              /\ fileOpen' = fileOpen \ {fi}
              /\ NextFile
              /\ ResetLocals
              /\ diag' = diag
         [] file.header = "err" ->
              /\ fileOpen' = fileOpen \ {fi}
              /\ ReturnError("headerError")
              /\ ResetLocals
         [] OTHER ->
              LET headerMap == HeaderMap(file.headers)
                  rr == ResolveRules(highlightRules, headerMap)
                  tc == ResolveColumns(cfg.Columns, headerMap)
                  warnings == RuleWarnings(highlightRules, headerMap, filePath)
                              \o ColumnWarnings(cfg.Columns, headerMap, filePath)
              IN
              IF Len(tc) = 0
              THEN /\ diag' = diag \o warnings
                              \o <<Diag("noColumns", filePath, <<>>, 0)>>
                   /\ fileOpen' = fileOpen \ {fi}
                   /\ NextFile
                   /\ ResetLocals
              ELSE /\ diag' = diag \o warnings
                   /\ resolvedRules' = rr
                   /\ targetColumns' = tc
                   /\ fileTagClass' = FileTagClass(filePath, fileTagRules)
                   /\ lineNum' = 1
                   /\ pos' = 0
                   /\ fieldsPerRecord' = Len(file.headers)
                   /\ pc' = "rows"
                   /\ UNCHANGED <<fi, fileOpen>>
    /\ UNCHANGED <<cfg, highlightRules, fileTagRules, fs, outFile, out, files>>

\* the row loop left at io.EOF with the file's handle kept
ReadRowEOF_NoClose ==
    /\ pc = "rows"
    /\ ReaderRead(fs[fi], pos, fieldsPerRecord).err = "EOF"
    /\ fileOpen' = fileOpen
    /\ NextFile
    /\ ResetLocals
    /\ UNCHANGED <<cfg, highlightRules, fileTagRules, fs, outFile, out, diag, files>>

\* one iteration of the row loop: the reader is at the end of the file
ReadRowEOF ==
    /\ pc = "rows"
    /\ ReaderRead(fs[fi], pos, fieldsPerRecord).err = "EOF"
    /\ fileOpen' = fileOpen \ {fi}
    /\ NextFile
    /\ ResetLocals
    /\ UNCHANGED <<cfg, highlightRules, fileTagRules, fs, outFile, out, diag, files>>

\* the row loop left at a read error, as at io.EOF
ReadRowError_Break ==
    /\ pc = "rows"
    /\ LET r == ReaderRead(fs[fi], pos, fieldsPerRecord) IN
       /\ r.err \in {"parse", "fieldcount", "io"}
       /\ diag' = Append(diag, Diag("parseError", files[fi], <<>>, lineNum + 1))
    /\ fileOpen' = fileOpen \ {fi}
    /\ NextFile
    /\ ResetLocals
    /\ UNCHANGED <<cfg, highlightRules, fileTagRules, fs, outFile, out, files>>

\* one iteration of the row loop: the read fails with another error than io.EOF
ReadRowError ==
    /\ pc = "rows"
    /\ LET r == ReaderRead(fs[fi], pos, fieldsPerRecord) IN
       /\ r.err \in {"parse", "fieldcount", "io"}
       /\ r.err = "io" => lineNum < MaxLine
       /\ lineNum' = lineNum + 1
       /\ pos' = pos + r.advance
       /\ diag' = Append(diag, Diag("parseError", files[fi], <<>>, lineNum + 1))
    /\ UNCHANGED <<cfg, highlightRules, fileTagRules, fs, pc, outFile, out, files, fi,
                   fileOpen, targetColumns, resolvedRules, fileTagClass,
                   fieldsPerRecord>>

\* one iteration of the row loop: the row does not contain cfg.SearchTarget
ReadRowSkip ==
    /\ pc = "rows"
    /\ LET r == ReaderRead(fs[fi], pos, fieldsPerRecord) IN
       /\ r.err = "nil"
       /\ ~RowMatches(r.record, cfg.SearchTarget)
       /\ lineNum' = lineNum + 1
       /\ pos' = pos + r.advance
    /\ UNCHANGED <<cfg, highlightRules, fileTagRules, fs, pc, outFile, out, diag, files,
                   fi, fileOpen, targetColumns, resolvedRules, fileTagClass,
                   fieldsPerRecord>>

\* one iteration of the row loop: the record is rendered and written
ReadRowEmit ==
    /\ pc = "rows"
    /\ LET r == ReaderRead(fs[fi], pos, fieldsPerRecord) IN
       /\ r.err = "nil"
       /\ RowMatches(r.record, cfg.SearchTarget)
       /\ \E written \in BOOLEAN :
            IF written
            THEN /\ out' = Append(out, RenderRecord(files[fi], lineNum + 1, r.record,
                                        targetColumns, resolvedRules, fileTagClass))
                 /\ lineNum' = lineNum + 1
                 /\ pos' = pos + r.advance
                 /\ UNCHANGED <<pc, diag, fi, fileOpen, targetColumns, resolvedRules,
                                fileTagClass, fieldsPerRecord>>
            ELSE /\ ReturnError("writeError")
                 /\ fileOpen' = fileOpen \ {fi}
                 /\ ResetLocals
                 /\ out' = out
    /\ UNCHANGED <<cfg, highlightRules, fileTagRules, fs, outFile, files>>

\* after the loop: writeHtmlFooter and outFile.Close()
Finalize ==
    /\ pc = "finalize"
    /\ IF outFile = "open"
       THEN /\ out' = Append(out, [kind |-> "footer"])
            /\ outFile' = "closed"
       ELSE UNCHANGED <<out, outFile>>
    /\ pc' = "done"
    /\ UNCHANGED <<cfg, highlightRules, fileTagRules, fs, diag, files, fi, fileOpen,
                   targetColumns, resolvedRules, fileTagClass, lineNum, pos,
                   fieldsPerRecord>>

Next ==
    \/ CreateOutput
    \/ Discover
    \/ OpenFile
    \/ ReadHeader
    \/ ReadRowEOF
    \/ ReadRowError
    \/ ReadRowSkip
    \/ ReadRowEmit
    \/ Finalize

----------------------------------------------------------------------------
(* The inputs of a run *)

\* column names: "ID", "Id" (differs in case only) and "N"
nID == <<"I", "D">>
nId == <<"I", "d">>
nN == <<"N">>

\* cell values: "To", "to" and "<T"
vTo == <<"T", "o">>
vto == <<"t", "o">>
vLt == <<"<", "T">>

\* the lines of a CSV file after the header: a line that is no CSV syntax (a bare
\* quote), two rows of two cells, a row of one cell
BadLine == [syntaxOK |-> FALSE, cells |-> <<>>]
Row(cells) == [syntaxOK |-> TRUE, cells |-> cells]
ShortRow == Row(<<vTo>>)

\* the path of the i-th discovered file: "ab", "b<", "b<<", ...
PathOf(i) == IF i = 1 THEN <<"a", "b">> ELSE <<"b">> \o [k \in 1..(i - 1) |-> "<"]

RowSeqs(raws, n) == UNION {[1..k -> raws] : k \in 0..n}

\* what os.Open and the reader can meet in one file with at most n rows
\* (faults: "open" the file cannot be opened, "eof" it is empty, "err" the read of
\* its header fails)
FileContents(path, faults, hdrs, raws, tails, n) ==
    { [path |-> path, canOpen |-> FALSE, header |-> "eof", headers |-> <<>>,
       rows |-> <<>>, tail |-> "eof"] : x \in faults \cap {"open"} }
    \cup { [path |-> path, canOpen |-> TRUE, header |-> h, headers |-> <<>>,
            rows |-> <<>>, tail |-> "eof"] : h \in faults \cap {"eof", "err"} }
    \cup { [path |-> path, canOpen |-> TRUE, header |-> "ok", headers |-> hs,
            rows |-> rs, tail |-> t] :
            hs \in hdrs, rs \in RowSeqs(raws, n), t \in tails }

\* the lists of at most MaxFiles files from the i-th on, with at most budget rows
RECURSIVE FileSystems(_, _, _, _, _, _)
FileSystems(i, faults, hdrs, raws, tails, budget) ==
    IF i > MaxFiles THEN {<<>>}
    ELSE {<<>>} \cup UNION {
            { <<f>> \o rest :
                rest \in FileSystems(i + 1, faults, hdrs, raws, tails,
                                     budget - Len(f.rows)) }
            : f \in FileContents(PathOf(i), faults, hdrs, raws, tails, budget) }

Col(name, emphasize) == [Name |-> name, Emphasize |-> emphasize]
Rule(name, value) == [ColumnName |-> name, ColumnValue |-> value]
Tag(tagName, keyword) == [TagName |-> tagName, Keyword |-> keyword]

\* the state main starts the pipeline in, after parseFlags and the rule parsing
InitWith(cols, targets, outs, rules, tags, faults, hdrs, raws, tails) ==
    /\ cfg \in [Columns : cols, SearchTarget : targets, OutFile : outs]
    /\ highlightRules \in rules
    /\ fileTagRules \in tags
    /\ fs \in FileSystems(1, faults, hdrs, raws, tails, MaxRows)
    /\ pc = "start"
    /\ outFile = "nil"
    /\ out = <<>>
    /\ diag = <<>>
    /\ files = <<>>
    /\ fi = 0
    /\ fileOpen = {}
    /\ targetColumns = <<>>
    /\ resolvedRules = <<>>
    /\ fileTagClass = <<>>
    /\ lineNum = 0
    /\ pos = 0
    /\ fieldsPerRecord = 0

\* runs over every outcome of every file, with the row filter on or off and the
\* output on the console or in a file
Init ==
    InitWith({<<Col(nID, FALSE)>>},
             {<<>>, vTo},
             {<<>>, <<"o">>},
             {<<>>},
             {<<>>},
             {"open", "eof", "err"},
             {<<nID, nN>>, <<nId, nN>>},
             {ShortRow, Row(<<vTo, vto>>), Row(<<vto, vLt>>)},
             {"eof"})

Spec == Init /\ [][Next]_vars

\* runs over every kind of row and of read failure, with three search targets
InitRows ==
    InitWith({<<Col(nID, FALSE), Col(nN, TRUE)>>, <<Col(nID, FALSE)>>},
             {<<>>, vTo, <<"<">>},
             {<<"o">>},
             {<<>>},
             {<<>>},
             {},
             {<<nID, nN>>},
             {BadLine, Row(<<vto, vTo>>), Row(<<vto, vLt>>), ShortRow},
             {"eof", "io"})

SpecRows == InitRows /\ [][Next]_vars

\* runs over column lists in and against the header's order, with a name requested
\* twice, over headers with and without the column "ID", with and without a
\* highlight rule on "ID"
InitColumns ==
    InitWith({<<Col(nID, FALSE), Col(nN, TRUE)>>,
              <<Col(nN, TRUE), Col(nID, FALSE)>>,
              <<Col(nID, TRUE), Col(nN, FALSE), Col(nID, FALSE)>>},
             {<<"<">>},
             {<<"o">>},
             {<<>>, <<Rule(nID, vto)>>},
             {<<>>},
             {"open", "eof", "err"},
             {<<nN, nID>>, <<nId, nN>>},
             {BadLine, Row(<<vTo, vto>>), Row(<<vto, vLt>>)},
             {"eof"})

SpecColumns == InitColumns /\ [][Next]_vars

\* tag names: "i" and "w<"
tI == <<"i">>
tW == <<"w", "<">>

\* runs over lists of file-tag rules of which none, one or two match a path
InitTags ==
    InitWith({<<Col(nN, FALSE)>>},
             {vTo},
             {<<"o">>},
             {<<>>},
             {<<>>,
              <<Tag(tI, <<"a">>), Tag(tW, <<"a", "b">>)>>,
              <<Tag(tW, <<"b">>), Tag(tI, <<"a">>)>>,
              <<Tag(tI, <<"c">>), Tag(tW, <<"<">>)>>,
              <<Tag(tI, <<"b", "a">>), Tag(tW, <<"A">>)>>},
             {},
             {<<nID, nN>>},
             {BadLine, Row(<<vTo, vto>>), Row(<<vto, vLt>>)},
             {"eof"})

SpecTags == InitTags /\ [][Next]_vars

\* runs over lists of highlight rules on a requested column, on a column that is
\* not requested, two on one column, and with a value that is only a part of a cell
InitHighlight ==
    InitWith({<<Col(nID, FALSE), Col(nN, TRUE)>>, <<Col(nN, FALSE)>>},
             {vTo},
             {<<"o">>},
             {<<Rule(nID, vTo)>>,
              <<Rule(nID, vto), Rule(nID, vTo)>>,
              <<Rule(nN, vTo)>>,
              <<Rule(nID, vTo), Rule(nN, vto)>>,
              <<Rule(nID, <<"T">>)>>},
             {<<>>},
             {},
             {<<nID, nN>>, <<nN, nID>>},
             {BadLine, Row(<<vTo, vto>>), Row(<<vto, vto>>)},
             {"eof"})

SpecHighlight == InitHighlight /\ [][Next]_vars

----------------------------------------------------------------------------
(* What the claims speak of, stated on the input and the output of a run *)

\* positions of the record blocks in the output
RecordIdx == {k \in DOMAIN out : out[k].kind = "record"}

\* positions of the record blocks that name the f-th file
RecordsOfFile(f) == {k \in RecordIdx : out[k].file = EscapeString(fs[f].path)}

\* t occurs in s as a contiguous, case-sensitive run of characters
SubstringOf(t, s) ==
    \E a \in 0..Len(s) : \E b \in a..Len(s) :
        b - a = Len(t) /\ \A i \in 1..Len(t) : s[a + i] = t[i]

\* the row filter, as the specification words it
PassesFilter(cells) ==
    cfg.SearchTarget = <<>>
    \/ \E i \in DOMAIN cells : SubstringOf(cfg.SearchTarget, cells[i])

\* the k-th line of the f-th file is a row the reader hands over: it is CSV and
\* has as many fields as the header
Delivered(f, k) ==
    /\ fs[f].rows[k].syntaxOK
    /\ Len(fs[f].rows[k].cells) = Len(fs[f].headers)

\* the data rows of the f-th file that pass the row filter
PassingRows(f) ==
    {k \in DOMAIN fs[f].rows : Delivered(f, k) /\ PassesFilter(fs[f].rows[k].cells)}

\* the passing rows of the files F, each as <<file, row>>
RowsPassingIn(F) == UNION {{<<f, k>> : k \in PassingRows(f)} : f \in F}

HeaderRead(f) == fs[f].canOpen /\ fs[f].header = "ok"

\* a requested column name is one of the header's names
SomeColumnResolves(f) ==
    \E i \in DOMAIN cfg.Columns : \E j \in DOMAIN fs[f].headers :
        fs[f].headers[j] = cfg.Columns[i].Name

DiagsOf(kind, f) == {k \in DOMAIN diag : diag[k].kind = kind /\ diag[k].file = fs[f].path}

NoWriteFailed == \A k \in DOMAIN diag : diag[k].kind # "writeError"

----------------------------------------------------------------------------
(* C1 *)

\* C1 as claimed: when the run has ended, the number of record blocks in the
\* output is the number of data rows that pass the row filter, summed over the
\* files that were opened, files in which no requested column resolves included.
C1_RecordCountOverOpenedFiles ==
    pc = "done" =>
        Cardinality(RecordIdx) =
            Cardinality(RowsPassingIn({f \in DOMAIN fs : fs[f].canOpen}))

\* C1 amended: when the run has ended, the number of record blocks in the output
\* is never more than the number of data rows that pass the row filter, summed
\* over the files whose header was read and in which at least one requested
\* column resolves; and it is that number when no write to the output failed.
C1_RecordCountOverResolvedFiles ==
    pc = "done" =>
        LET expected == Cardinality(RowsPassingIn(
                            {f \in DOMAIN fs : HeaderRead(f) /\ SomeColumnResolves(f)}))
        IN /\ Cardinality(RecordIdx) <= expected
           /\ NoWriteFailed => Cardinality(RecordIdx) = expected

\* a finished run over two files: one has a passing row but none of the requested
\* columns, the other has a passing row and a requested column, and its record
\* is in the output
C1_Witness ==
    /\ pc = "done"
    /\ NoWriteFailed
    /\ Len(fs) = 2
    /\ \E f, g \in DOMAIN fs :
        /\ HeaderRead(f) /\ ~SomeColumnResolves(f) /\ PassingRows(f) # {}
        /\ HeaderRead(g) /\ SomeColumnResolves(g) /\ PassingRows(g) # {}
        /\ RecordsOfFile(g) # {}

----------------------------------------------------------------------------
(* C2 *)

HeaderIdx == {k \in DOMAIN out : out[k].kind = "header"}
FooterIdx == {k \in DOMAIN out : out[k].kind = "footer"}

\* C2, on the runs in which main returns: when the markup header was written,
\* the output is one header, then the record blocks, then one footer, whatever
\* list of files discovery gave (several files, one file, none).
C2_HeaderFooterWrap ==
    (pc = "done" /\ HeaderIdx # {}) =>
        /\ HeaderIdx = {1}
        /\ FooterIdx = {Len(out)}
        /\ RecordIdx = 2..(Len(out) - 1)

----------------------------------------------------------------------------
(* C3 *)

\* the failures of one file that C3 names
CannotOpen(f) == ~fs[f].canOpen
HeaderUnreadable(f) == fs[f].canOpen /\ fs[f].header = "err"
NoColumnResolves(f) == HeaderRead(f) /\ ~SomeColumnResolves(f)
BadFile(f) == CannotOpen(f) \/ HeaderUnreadable(f) \/ NoColumnResolves(f)

\* main's loop is past the f-th file
Processed(f) == f \in DOMAIN files /\ (f < fi \/ pc \in {"finalize", "done"})

\* C3: a file that cannot be opened, whose header cannot be read or in which no
\* requested column resolves is reported once and gives no record; the run is
\* not ended by it (the process exits only before the first file, and main goes
\* on until it returns); and when main has returned, every file after it whose
\* header was read, in which a column resolves and during which no write failed
\* has given one record per passing row, in row order, with the row's line.
C3_BadFileSkipped ==
    /\ \A f \in DOMAIN fs : (BadFile(f) /\ Processed(f)) =>
          /\ RecordsOfFile(f) = {}
          /\ Cardinality(DiagsOf("openError", f)) = (IF CannotOpen(f) THEN 1 ELSE 0)
          /\ Cardinality(DiagsOf("headerError", f)) = (IF HeaderUnreadable(f) THEN 1 ELSE 0)
          /\ Cardinality(DiagsOf("noColumns", f)) = (IF NoColumnResolves(f) THEN 1 ELSE 0)
    /\ pc = "exit" => fi = 0
    /\ pc \notin {"done", "exit"} => ENABLED Next
    /\ pc = "done" =>
          \A f, g \in DOMAIN fs :
             (/\ f < g /\ BadFile(f)
              /\ HeaderRead(g) /\ SomeColumnResolves(g) /\ DiagsOf("writeError", g) = {}) =>
                /\ {out[k].line : k \in RecordsOfFile(g)} = {r + 1 : r \in PassingRows(g)}
                /\ Cardinality(RecordsOfFile(g)) = Cardinality(PassingRows(g))
                /\ \A k1, k2 \in RecordsOfFile(g) : k1 < k2 => out[k1].line < out[k2].line

\* a finished run in which the first file failed and the second gave a record
C3_Witness ==
    /\ pc = "done"
    /\ Len(fs) = 2
    /\ BadFile(1)
    /\ DiagsOf("writeError", 2) = {}
    /\ RecordsOfFile(2) # {}

----------------------------------------------------------------------------
(* C4 *)

\* the requested column names the header of the f-th file lacks
MissingNames(f) ==
    {cfg.Columns[i].Name : i \in DOMAIN cfg.Columns}
    \ {fs[f].headers[j] : j \in DOMAIN fs[f].headers}

\* positions in the log of the warnings of the f-th file that name column c
WarningsNaming(f, c) ==
    {k \in DOMAIN diag :
        /\ diag[k].kind \in {"columnMissing", "ruleColumnMissing"}
        /\ diag[k].file = fs[f].path
        /\ diag[k].column = c}

\* when main has returned, the f-th file, in which a requested column resolves,
\* has given one record for each passing row unless a write failed
RemainingColumnsProcessed(f) ==
    (pc = "done" /\ SomeColumnResolves(f) /\ DiagsOf("writeError", f) = {}) =>
        {out[k].line : k \in RecordsOfFile(f)} = {r + 1 : r \in PassingRows(f)}

----------------------------------------------------------------------------
(* C8 *)

\* the requested column specs whose name is in the header of the f-th file, in
\* the order they were declared
SpecsInHeader(f) ==
    SelectSeq(cfg.Columns, LAMBDA sp :
        \E j \in DOMAIN fs[f].headers : fs[f].headers[j] = sp.Name)

\* the index of the file a record block names
FileOfRecord(k) == CHOOSE f \in DOMAIN fs : out[k].file = EscapeString(fs[f].path)

\* C8: the entries of every record block are the requested column specs whose
\* name is in the header of the record's file, in the order of cfg.Columns, each
\* with the name of its spec and with the emphasis class exactly when its spec
\* asks for emphasis.
C8_EntriesInDeclarationOrder ==
    \A k \in RecordIdx :
        LET want == SpecsInHeader(FileOfRecord(k))
            items == out[k].items
        IN /\ Len(items) = Len(want)
           /\ \A i \in DOMAIN items :
                /\ items[i].key = EscapeString(want[i].Name)
                /\ want[i].Emphasize <=>
                      \E c \in DOMAIN items[i].class : items[i].class[c] = "emphasis"

\* two files whose headers differ, each with a record; in one the header's order
\* is the reverse of the requested order, in the other a requested name is missing
C8_Witness ==
    \E k1, k2 \in RecordIdx :
        LET f == FileOfRecord(k1)
            g == FileOfRecord(k2)
        IN /\ fs[f].headers # fs[g].headers
           /\ Len(out[k1].items) = 2
           /\ cfg.Columns[1].Name = fs[f].headers[2]
           /\ cfg.Columns[2].Name = fs[f].headers[1]
           /\ Len(out[k2].items) < Len(cfg.Columns)

----------------------------------------------------------------------------
(* C5 *)

FileInfo == <<"f", "i", "l", "e", "-", "i", "n", "f", "o">>

\* the file-tag rules whose keyword is a substring of the path of the f-th file
MatchingTagRules(f) ==
    {i \in DOMAIN fileTagRules : SubstringOf(fileTagRules[i].Keyword, fs[f].path)}

\* C5: the file-info line of every record block has the class file-info alone
\* when no rule's keyword is a substring of the path of the record's file, and
\* else file-info followed by the one class tag-<name> of the first such rule in
\* declaration order; so all records of a file carry the same, single tag.
C5_FirstMatchingTag ==
    \A k \in RecordIdx :
        LET f == FileOfRecord(k)
            matching == MatchingTagRules(f)
        IN IF matching = {}
           THEN out[k].fileClass = FileInfo
           ELSE LET first == CHOOSE i \in matching : \A j \in matching : i <= j
                IN out[k].fileClass =
                      FileInfo \o <<" ", "t", "a", "g", "-">>
                               \o EscapeString(fileTagRules[first].TagName)

\* records of two files: the path of one holds the keywords of two rules with
\* different tags, the path of the other holds no rule's keyword
C5_Witness ==
    \E k1, k2 \in RecordIdx :
        LET f == FileOfRecord(k1)
            g == FileOfRecord(k2)
        IN /\ Cardinality(MatchingTagRules(f)) = 2
           /\ fileTagRules[1].TagName # fileTagRules[2].TagName
           /\ out[k1].fileClass # FileInfo
           /\ MatchingTagRules(g) = {}
           /\ out[k2].fileClass = FileInfo

----------------------------------------------------------------------------
(* C6 *)

\* the cells of the row a record block was made from
RowOfRecord(k) == fs[FileOfRecord(k)].rows[out[k].line - 1].cells

\* the position in the header of the f-th file that the name c stands for
ColumnOf(f, c) ==
    CHOOSE j \in DOMAIN fs[f].headers :
        /\ fs[f].headers[j] = c
        /\ \A j2 \in DOMAIN fs[f].headers : fs[f].headers[j2] = c => j2 <= j

Highlighted(item) == \E c \in DOMAIN item.class : item.class[c] = "highlight-value"

----------------------------------------------------------------------------
(* C7, C9, C10: the rows of one file *)

\* the f-th file got as far as the row loop
RowsLooped(f) == HeaderRead(f) /\ SomeColumnResolves(f)

\* the row loop of the f-th file ended at the end of the file
ReadToEnd(f) == Processed(f) /\ RowsLooped(f) /\ DiagsOf("writeError", f) = {}

\* the row loop is in the f-th file
InRows(f) == pc = "rows" /\ fi = f

\* the rows of the f-th file that are known to have been read
RowsRead(f) ==
    IF ReadToEnd(f) THEN DOMAIN fs[f].rows
    ELSE IF InRows(f) THEN 1..pos
    ELSE {}

\* a record block of the f-th file with this line number is in the output
HasRecord(f, line) == \E k \in RecordsOfFile(f) : out[k].line = line

\* the line numbers of the parse warnings of the f-th file
ParseLines(f) == {diag[k].line : k \in DiagsOf("parseError", f)}

\* C7: a data row gives a record block exactly when the search target is empty
\* or is a case-sensitive substring of one of its cells, requested or not: no
\* record block is made from a row that does not pass, and every row read that
\* passes has its record block (in a file during which no write failed).
C7_RecordIffRowPasses ==
    \A f \in DOMAIN fs :
        /\ \A k \in RecordsOfFile(f) :
              /\ out[k].line - 1 \in DOMAIN fs[f].rows
              /\ Delivered(f, out[k].line - 1)
              /\ PassesFilter(fs[f].rows[out[k].line - 1].cells)
        /\ \A r \in RowsRead(f) :
              (Delivered(f, r) /\ PassesFilter(fs[f].rows[r].cells)) => HasRecord(f, r + 1)

\* a file read to its end with a row that holds the target only in the cell of a
\* column that is not requested, and with another row that holds the target in
\* another case only: the first has a record, the second has none
C7_Witness ==
    \E f \in DOMAIN fs : \E r1, r2 \in DOMAIN fs[f].rows :
        /\ ReadToEnd(f)
        /\ cfg.SearchTarget = vTo
        /\ Delivered(f, r1) /\ Delivered(f, r2)
        /\ \A j \in DOMAIN fs[f].headers :
              SubstringOf(cfg.SearchTarget, fs[f].rows[r1].cells[j]) =>
                 \A i \in DOMAIN cfg.Columns : cfg.Columns[i].Name # fs[f].headers[j]
        /\ HasRecord(f, r1 + 1)
        /\ \E j \in DOMAIN fs[f].headers : fs[f].rows[r2].cells[j] = vto
        /\ ~HasRecord(f, r2 + 1)

----------------------------------------------------------------------------
(* C9 *)

\* the row has fewer cells than a resolved column's index requires
TooShortFor(f, r) ==
    /\ fs[f].rows[r].syntaxOK
    /\ \E i \in DOMAIN cfg.Columns : \E j \in DOMAIN fs[f].headers :
          fs[f].headers[j] = cfg.Columns[i].Name /\ j > Len(fs[f].rows[r].cells)

\* C9: a row read that passes the filter and has fewer cells than a resolved
\* column's index requires has its record block (in a file during which no
\* write failed), and no warning is logged for its line.
C9_ShortRowTolerated ==
    \A f \in DOMAIN fs : \A r \in RowsRead(f) :
        (TooShortFor(f, r) /\ PassesFilter(fs[f].rows[r].cells)) =>
            /\ HasRecord(f, r + 1)
            /\ r + 1 \notin ParseLines(f)

----------------------------------------------------------------------------
(* C10 *)

\* C10: the parse warnings of a file have one line number each; every line read
\* that is no row the reader hands over has no record block and has a warning
\* with its line number, the row read first being line 2 and every read adding
\* one; a row handed over has no warning; a read failure leaves the loop
\* running, and at the end of a file during which no write failed every row the
\* reader handed over that passes the filter has its record block.
C10_FaultyRowSkippedOnly ==
    \A f \in DOMAIN fs :
        /\ Cardinality(DiagsOf("parseError", f)) = Cardinality(ParseLines(f))
        /\ \A r \in RowsRead(f) :
              IF Delivered(f, r)
              THEN /\ r + 1 \notin ParseLines(f)
                   /\ (ReadToEnd(f) /\ PassesFilter(fs[f].rows[r].cells))
                         => HasRecord(f, r + 1)
              ELSE /\ r + 1 \in ParseLines(f)
                   /\ ~HasRecord(f, r + 1)
        /\ InRows(f) =>
              /\ lineNum = Cardinality(RowsRead(f)) + 1
                           + Cardinality({l \in ParseLines(f) : l > Len(fs[f].rows) + 1})
              /\ ParseLines(f) \subseteq 2..lineNum
        /\ (RowsLooped(f) /\ Processed(f)) =>
              ParseLines(f) \subseteq {r + 1 : r \in {x \in DOMAIN fs[f].rows : ~Delivered(f, x)}}

\* a file read to its end whose first line after the header is no CSV and whose
\* next row has its record block with line 3, the warning having line 2
C10_Witness ==
    \E f \in DOMAIN fs :
        /\ ReadToEnd(f)
        /\ Len(fs[f].rows) = 2
        /\ ~fs[f].rows[1].syntaxOK
        /\ ParseLines(f) = {2}
        /\ HasRecord(f, 3)
        /\ ~HasRecord(f, 2)

----------------------------------------------------------------------------
(* C11 *)

\* C11: at most one input file is open, and it is the file main's loop is at,
\* between its os.Open and the return of its processFile call; when the loop is
\* about to open a file, or is past the last one, no handle is held, whichever
\* exit the calls before took; a file that could not be opened never holds a
\* handle; and in the output the record blocks are grouped by file in the order
\* of the discovered list, none naming a file the loop has not reached.
C11_OneFileAtATime ==
    /\ Cardinality(fileOpen) <= 1
    /\ fileOpen \subseteq {f \in DOMAIN fs : f = fi /\ fs[f].canOpen}
    /\ fileOpen # {} <=> pc \in {"header", "rows"}
    /\ \A f \in DOMAIN fs : Processed(f) => f \notin fileOpen
    /\ \A k \in RecordIdx : FileOfRecord(k) \in 1..fi
    /\ \A k1, k2 \in RecordIdx : k1 < k2 => FileOfRecord(k1) <= FileOfRecord(k2)

\* main has returned after two files that each gave a record block, the first
\* file's before the second's, and no handle is held
C11_Witness ==
    /\ pc = "done"
    /\ Len(fs) = 2
    /\ ReadToEnd(1)
    /\ RecordsOfFile(1) # {}
    /\ RecordsOfFile(2) # {}
    /\ \A k1 \in RecordsOfFile(1) : \A k2 \in RecordsOfFile(2) : k1 < k2
    /\ fileOpen = {}

----------------------------------------------------------------------------
(* C12 *)

\* the reads the row loop has taken that left the reader where it was
ReadsInPlace == (lineNum - 1) - pos

\* C12: the row loop ends over every file: each read either moves the reader
\* forward in the file or is the last of the loop, but for a read that fails
\* with another error than io.EOF, which is not tried again at the same place;
\* so over a file of n rows the loop is left after at most n + 2 reads and main
\* goes on to its last step.
C12_FailingReadNotRetried ==
    pc = "rows" => ReadsInPlace <= 1

====
